---- MODULE Spec2Model ----
(***************************************************************************)
(* Task Manager Pro: the lifecycle controller of src/backend/main.py       *)
(* (kill_process, suspend_process, resume_process and the protection       *)
(* policy), the bounded sampler of src/backend-v1-fastapi/main.py          *)
(* (get_processes_fast on the shared ThreadPoolExecutor) and the pure      *)
(* sampling / aggregation functions (fetch_processes, get_processes,       *)
(* get_apps_grouped), the protection policy (is_protected_process) and the *)
(* CPU baseline behind proc.cpu_percent() under overlapping passes.        *)
(*                                                                         *)
(* Python str values are sequences of one-character strings, so that       *)
(* lower(), the substring test `in` and replace() are computed and not     *)
(* assumed.  Percentages and megabytes are integers counting tenths.       *)
(***************************************************************************)
EXTENDS Integers, Sequences, FiniteSets, TLC

VARIABLES
  ptable,     \* lifecycle: the OS process table, pid -> process
  req,        \* lifecycle: the request the event loop is handling
  call,       \* sampler: each request slot's place in get_processes_fast
  queue,      \* sampler: the executor's work queue (slots, oldest first)
  orphans,    \* sampler: workers still enumerating for a caller that timed out
  resp,       \* sampler: the response returned last
  penum,      \* pure: the enumeration psutil.process_iter yields
  ncpu,       \* pure: psutil.cpu_count()
  fast,       \* pure: the result of fetch_processes
  apps,       \* pure: the result of get_apps_grouped
  listing,    \* pure: the response of get_processes of src/backend/main.py
  guard,      \* guard: one application of is_protected_process
  tracker,    \* cpu: the clocks and the CPU baseline kept for one process
  passes      \* cpu: each sampling pass's place in proc.cpu_percent()

lifeVars == <<ptable, req>>
samplerVars == <<call, queue, orphans, resp>>
pureVars == <<penum, ncpu, fast, apps, listing>>
guardVars == <<guard>>
trackVars == <<tracker, passes>>
vars == <<ptable, req, call, queue, orphans, resp, penum, ncpu, fast, apps, listing, guard,
          tracker, passes>>

----------------------------------------------------------------------------
(* Python str helpers *)

N_chrome_exe== <<"c","h","r","o","m","e",".","e","x","e">>
N_Chrome_exe == <<"C","h","r","o","m","e",".","e","x","e">>
N_chrome_EXE == <<"c","h","r","o","m","e",".","E","X","E">>
N_notepad_com == <<"n","o","t","e","p","a","d",".","c","o","m">>
N_notepad_exe == <<"n","o","t","e","p","a","d",".","e","x","e">>
N_explorer_exe == <<"e","x","p","l","o","r","e","r",".","e","x","e">>
N_Explorer_EXE == <<"E","x","p","l","o","r","e","r",".","E","X","E">>
N_myapp_exe == <<"m","y","a","p","p",".","e","x","e">>
N_svchost_exe == <<"s","v","c","h","o","s","t",".","e","x","e">>
N_mysystem_exe == <<"m","y","s","y","s","t","e","m",".","e","x","e">>
N_chrome == <<"c","h","r","o","m","e">>
N_notepad == <<"n","o","t","e","p","a","d">>
DOT_EXE == <<".","e","x","e">>
DOT_COM == <<".","c","o","m">>
UPPER == <<"A","B","C","D","E","F","G","H","I","J","K","L","M","N","O","P","Q","R","S","T","U","V","W","X","Y","Z">>
LOWER == <<"a","b","c","d","e","f","g","h","i","j","k","l","m","n","o","p","q","r","s","t","u","v","w","x","y","z">>

\* The value psutil supplies for an attribute it could not read (ad_value=None).
NoneName == <<"<None>">>

LowerChar(c) ==
  IF \E i \in 1..Len(UPPER) : UPPER[i] = c
  THEN LOWER[CHOOSE i \in 1..Len(UPPER) : UPPER[i] = c]
  ELSE c

\* str.lower()
Lower(s) == [i \in 1..Len(s) |-> LowerChar(s[i])]

\* s[i:i+len(sub)] == sub
MatchAt(s, sub, i) ==
  /\ i + Len(sub) - 1 <= Len(s)
  /\ \A k \in 1..Len(sub) : s[i + k - 1] = sub[k]

\* the Python substring test `sub in s`
Contains(sub, s) == \E i \in 1..(Len(s) + 1) : MatchAt(s, sub, i)

----------------------------------------------------------------------------
(* ProcessGuard of src/backend/main.py *)

PROTECTED_PROCESSES ==
  << <<"s","y","s","t","e","m">>,
     <<"s","y","s","t","e","m"," ","i","d","l","e"," ","p","r","o","c","e","s","s">>,
     <<"r","e","g","i","s","t","r","y">>,
     <<"s","m","s","s",".","e","x","e">>,
     <<"c","s","r","s","s",".","e","x","e">>,
     <<"w","i","n","i","n","i","t",".","e","x","e">>,
     <<"s","e","r","v","i","c","e","s",".","e","x","e">>,
     <<"l","s","a","s","s",".","e","x","e">>,
     <<"w","i","n","l","o","g","o","n",".","e","x","e">>,
     <<"d","w","m",".","e","x","e">>,
     <<"s","v","c","h","o","s","t",".","e","x","e">>,
     <<"e","x","p","l","o","r","e","r",".","e","x","e">> >>

\* The `pid <= 10` rule of is_protected_process.
PROTECTED_PID_MAX == 10

is_protected_process_noLowPid(process_name, pid) ==
  LET process_name_lower == Lower(process_name) IN
  \E i \in 1..Len(PROTECTED_PROCESSES) :
     Contains(PROTECTED_PROCESSES[i], process_name_lower)

is_protected_process(process_name, pid) ==
  LET process_name_lower == Lower(process_name) IN
  \/ \E i \in 1..Len(PROTECTED_PROCESSES) :
        Contains(PROTECTED_PROCESSES[i], process_name_lower)
  \/ pid <= PROTECTED_PID_MAX

----------------------------------------------------------------------------
(* LifecycleController of src/backend/main.py.                             *)
(* The handlers are `async def` bodies without an await: the event loop    *)
(* runs one of them at a time, and only the operating system (process exit *)
(* and pid reuse) interleaves with the psutil calls of a handler.  The      *)
(* 3 s of proc.wait is abstract: Wait finds the process gone or still there.*)

\* Largest pid of the modelled process table; pids run from the last
\* reserved low pid (PROTECTED_PID_MAX) upwards.
MaxPid == 11

Pids == PROTECTED_PID_MAX .. MaxPid

ProcNames == {N_myapp_exe, N_Explorer_EXE, N_mysystem_exe}

NoProc == [alive |-> FALSE, name |-> NoneName, status |-> "gone"]

LiveProcs == [alive : {TRUE}, name : ProcNames, status : {"running", "stopped"}]

NoResult == [status |-> 0, kind |-> "none"]

IdleReq ==
  [op |-> "none", pid |-> 0, force |-> FALSE, pc |-> "idle", valid |-> FALSE,
   name |-> NoneName, vetoed |-> FALSE, gone |-> FALSE, sent |-> <<>>,
   waited |-> "none", result |-> NoResult, prev |-> 0, calls |-> 0]

\* History of the request before this one: its pid when it was a
\* resume_process call that succeeded on a running process, else 0.
ResumedRunning(r) ==
  IF /\ r.op = "resume" /\ r.pc = "done" /\ r.result = [status |-> 200, kind |-> "Success"]
     /\ r.sent # <<>> /\ r.sent[1].before = "running"
  THEN r.pid ELSE 0

\* The exception classes the handlers raise or meet, with their base classes:
\* fastapi.HTTPException is a subclass of Exception.
Bases(cls) ==
  CASE cls = "NoSuchProcess"  -> {"NoSuchProcess", "Error", "Exception"}
    [] cls = "AccessDenied"   -> {"AccessDenied", "Error", "Exception"}
    [] cls = "TimeoutExpired" -> {"TimeoutExpired", "Error", "Exception"}
    [] cls = "HTTPException"  -> {"HTTPException", "Exception"}
    [] OTHER                  -> {cls, "Exception"}

IsInstance(exc, cls) == cls \in Bases(exc.cls)

Raise(cls) == [cls |-> cls, status |-> 0, kind |-> "none"]

\* raise HTTPException(status_code=..., detail=...)
HTTPException(status, kind) == [cls |-> "HTTPException", status |-> status, kind |-> kind]

Http(status, kind) == [status |-> status, kind |-> kind]

\* The except clauses of kill_process, tried in order.
KillExcept_noTimeoutClause(exc) ==
  IF IsInstance(exc, "NoSuchProcess") THEN Http(404, "NotFound")
  ELSE IF IsInstance(exc, "AccessDenied") THEN Http(403, "AccessDenied")
  ELSE Http(500, "Internal")

KillExcept(exc) ==
  IF IsInstance(exc, "NoSuchProcess") THEN Http(404, "NotFound")
  ELSE IF IsInstance(exc, "AccessDenied") THEN Http(403, "AccessDenied")
  ELSE IF IsInstance(exc, "TimeoutExpired") THEN Http(200, "SoftSuccess")
  ELSE IF IsInstance(exc, "Exception") THEN Http(500, "Internal")
  ELSE Http(exc.status, exc.kind)

\* The except clauses of suspend_process and of resume_process.
ControlExcept(exc) ==
  IF IsInstance(exc, "NoSuchProcess") THEN Http(404, "NotFound")
  ELSE IF IsInstance(exc, "AccessDenied") THEN Http(403, "AccessDenied")
  ELSE IF IsInstance(exc, "Exception") THEN Http(500, "Internal")
  ELSE Http(exc.status, exc.kind)

Except(op, exc) == IF op = "kill" THEN KillExcept(exc) ELSE ControlExcept(exc)

Finish(r, result) == [r EXCEPT !.pc = "done", !.result = result]

\* A request arrives: POST /api/process/{pid}/kill|suspend|resume.
Call(op, pid, force) ==
  /\ req.pc \in {"idle", "done"}
  /\ req' = [IdleReq EXCEPT !.op = op, !.pid = pid, !.force = force, !.pc = "resolve",
                            !.prev = ResumedRunning(req)]
  /\ UNCHANGED <<ptable, samplerVars, pureVars, guardVars, trackVars>>

\* proc = psutil.Process(pid): NoSuchProcess when no process has the pid.
Resolve ==
  /\ req.pc = "resolve"
  /\ IF ptable[req.pid].alive
     THEN req' = [req EXCEPT !.valid = TRUE,
                             !.pc = IF req.op = "kill" THEN "name" ELSE "signal"]
     ELSE req' = Finish([req EXCEPT !.gone = TRUE], Except(req.op, Raise("NoSuchProcess")))
  /\ UNCHANGED <<ptable, samplerVars, pureVars, guardVars, trackVars>>

\* The protection check of kill_process, on the name just read.
KillCheck_skipped(proc_name, pid) == FALSE

KillCheck(proc_name, pid) == is_protected_process(proc_name, pid)

\* proc_name = proc.name(), which reads the name of whatever process holds
\* the pid now, then the protection check and its raise inside the try.
ReadName ==
  /\ req.pc = "name"
  /\ IF ~ptable[req.pid].alive
     THEN req' = Finish(req, Except("kill", Raise("NoSuchProcess")))
     ELSE LET proc_name == ptable[req.pid].name IN
          IF KillCheck(proc_name, req.pid)
          THEN req' = Finish([req EXCEPT !.name = proc_name, !.vetoed = TRUE],
                             Except("kill", HTTPException(403, "Forbidden")))
          ELSE req' = [req EXCEPT !.name = proc_name, !.pc = "signal"]
  /\ UNCHANGED <<ptable, samplerVars, pureVars, guardVars, trackVars>>

SignalKind(r) ==
  IF r.op = "kill" THEN (IF r.force THEN "kill" ELSE "terminate") ELSE r.op

\* What a delivered control does to the process at once: suspend stops it,
\* resume continues it; terminate and kill take effect when the process exits.
Delivered_resumeToggles(p, kind) ==
  CASE kind = "suspend" -> [p EXCEPT !.status = "stopped"]
    [] kind = "resume"  -> [p EXCEPT !.status = IF @ = "running" THEN "stopped" ELSE "running"]
    [] OTHER            -> p

Delivered(p, kind) ==
  CASE kind = "suspend" -> [p EXCEPT !.status = "stopped"]
    [] kind = "resume"  -> [p EXCEPT !.status = "running"]
    [] OTHER            -> p

\* The control sent to whatever process holds the pid, as os.kill(pid, sig)
\* would.
Signal_byPid ==
  /\ req.pc = "signal"
  /\ UNCHANGED <<samplerVars, pureVars, guardVars, trackVars>>
  /\ \/ /\ ~ptable[req.pid].alive
        /\ req' = Finish([req EXCEPT !.calls = @ + 1], Except(req.op, Raise("NoSuchProcess")))
        /\ UNCHANGED ptable
     \/ /\ ptable[req.pid].alive
        /\ req' = Finish([req EXCEPT !.calls = @ + 1], Except(req.op, Raise("AccessDenied")))
        /\ UNCHANGED ptable
     \/ /\ ptable[req.pid].alive
        /\ LET kind == SignalKind(req)
               log  == Append(req.sent, [kind |-> kind, pid |-> req.pid,
                                         name |-> ptable[req.pid].name,
                                         before |-> ptable[req.pid].status,
                                         after |-> Delivered(ptable[req.pid], kind).status])
           IN /\ ptable' = [ptable EXCEPT ![req.pid] = Delivered(@, kind)]
              /\ req' = IF req.op = "kill"
                        THEN [req EXCEPT !.sent = log, !.calls = @ + 1, !.pc = "wait"]
                        ELSE Finish([req EXCEPT !.sent = log, !.calls = @ + 1],
                                    Http(200, "Success"))

\* proc.kill() / proc.terminate() / proc.suspend() / proc.resume(): psutil
\* raises NoSuchProcess when the process of the handle is gone (also when its
\* pid was reused), the OS may deny the control, else the control is delivered.
Signal ==
  /\ req.pc = "signal"
  /\ UNCHANGED <<samplerVars, pureVars, guardVars, trackVars>>
  /\ \/ /\ ~req.valid
        /\ req' = Finish([req EXCEPT !.calls = @ + 1], Except(req.op, Raise("NoSuchProcess")))
        /\ UNCHANGED ptable
     \/ /\ req.valid
        /\ req' = Finish([req EXCEPT !.calls = @ + 1], Except(req.op, Raise("AccessDenied")))
        /\ UNCHANGED ptable
     \/ /\ req.valid
        /\ LET kind == SignalKind(req)
               log  == Append(req.sent, [kind |-> kind, pid |-> req.pid,
                                         name |-> ptable[req.pid].name,
                                         before |-> ptable[req.pid].status,
                                         after |-> Delivered(ptable[req.pid], kind).status])
           IN /\ ptable' = [ptable EXCEPT ![req.pid] = Delivered(@, kind)]
              /\ req' = IF req.op = "kill"
                        THEN [req EXCEPT !.sent = log, !.calls = @ + 1, !.pc = "wait"]
                        ELSE Finish([req EXCEPT !.sent = log, !.calls = @ + 1],
                                    Http(200, "Success"))

\* proc.wait(timeout=3): returns when the process is gone, raises
\* TimeoutExpired when it is still there after the bounded wait.
Wait_resendsOnTimeout ==
  /\ req.pc = "wait"
  /\ IF req.valid
     THEN req' = IF req.calls < 2
                 THEN [req EXCEPT !.pc = "signal"]
                 ELSE Finish([req EXCEPT !.waited = "timeout"],
                             Except("kill", Raise("TimeoutExpired")))
     ELSE req' = Finish([req EXCEPT !.waited = "exited"], Http(200, "Success"))
  /\ UNCHANGED <<ptable, samplerVars, pureVars, guardVars, trackVars>>

Wait ==
  /\ req.pc = "wait"
  /\ IF req.valid
     THEN req' = Finish([req EXCEPT !.waited = "timeout"], Except("kill", Raise("TimeoutExpired")))
     ELSE req' = Finish([req EXCEPT !.waited = "exited"], Http(200, "Success"))
  /\ UNCHANGED <<ptable, samplerVars, pureVars, guardVars, trackVars>>

\* The operating system: a process exits (the handle of a request that
\* resolved it no longer names a live process) ...
ProcExit(p) ==
  /\ ptable[p].alive
  /\ UNCHANGED <<samplerVars, pureVars, guardVars, trackVars>>
  /\ ptable' = [ptable EXCEPT ![p] = NoProc]
  /\ req' = IF req.pid = p /\ req.pc \in {"name", "signal", "wait"}
            THEN [req EXCEPT !.valid = FALSE,
                             !.gone = IF req.pc \in {"name", "signal"} THEN TRUE ELSE @]
            ELSE req

\* ... and a new process starts, possibly on a pid used before.
ProcSpawn(p, n) ==
  /\ ~ptable[p].alive
  /\ ptable' = [ptable EXCEPT ![p] = [alive |-> TRUE, name |-> n, status |-> "running"]]
  /\ UNCHANGED <<req, samplerVars, pureVars, guardVars, trackVars>>

LifeInit ==
  /\ ptable \in [Pids -> LiveProcs \cup {NoProc}]
  /\ req = IdleReq

LifeNext ==
  \/ \E pid \in Pids, force \in BOOLEAN : Call("kill", pid, force)
  \/ \E pid \in Pids : Call("suspend", pid, FALSE)
  \/ \E pid \in Pids : Call("resume", pid, FALSE)
  \/ Resolve
  \/ ReadName
  \/ Signal
  \/ Wait
  \/ \E p \in Pids : ProcExit(p)
  \/ \E p \in Pids, n \in ProcNames : ProcSpawn(p, n)


----------------------------------------------------------------------------
(* The sampling pass and the aggregation of src/backend-v1-fastapi/main.py, *)
(* and the sampling pass of src/backend/main.py, as functions of what       *)
(* psutil.process_iter yields.                                              *)

SYSTEM_PROCESSES ==
  { <<"s","y","s","t","e","m">>,
    <<"r","e","g","i","s","t","r","y">>,
    <<"s","m","s","s",".","e","x","e">>,
    <<"c","s","r","s","s",".","e","x","e">>,
    <<"w","i","n","i","n","i","t",".","e","x","e">>,
    <<"s","e","r","v","i","c","e","s",".","e","x","e">>,
    <<"l","s","a","s","s",".","e","x","e">>,
    <<"w","i","n","l","o","g","o","n",".","e","x","e">>,
    <<"d","w","m",".","e","x","e">>,
    <<"s","v","c","h","o","s","t",".","e","x","e">>,
    <<"e","x","p","l","o","r","e","r",".","e","x","e">>,
    <<"t","a","s","k","e","n","g",".","e","x","e">>,
    <<"t","a","s","k","h","o","s","t","w",".","e","x","e">>,
    <<"s","i","h","o","s","t",".","e","x","e">>,
    <<"r","u","n","t","i","m","e","b","r","o","k","e","r",".","e","x","e">>,
    <<"s","e","a","r","c","h","i","n","d","e","x","e","r",".","e","x","e">>,
    <<"s","e","a","r","c","h","p","r","o","t","o","c","o","l","h","o","s","t",".","e","x","e">>,
    <<"s","e","a","r","c","h","f","i","l","t","e","r","h","o","s","t",".","e","x","e">>,
    <<"w","m","i","p","r","v","s","e",".","e","x","e">>,
    <<"s","p","o","o","l","s","v",".","e","x","e">>,
    <<"c","o","n","h","o","s","t",".","e","x","e">>,
    <<"f","o","n","t","d","r","v","h","o","s","t",".","e","x","e">>,
    <<"l","s","a","i","s","o",".","e","x","e">>,
    <<"m","e","m","o","r","y"," ","c","o","m","p","r","e","s","s","i","o","n">>,
    <<"s","y","s","t","e","m"," ","i","d","l","e"," ","p","r","o","c","e","s","s">> }

N_SystemIdle == <<"S","y","s","t","e","m"," ","I","d","l","e"," ","P","r","o","c","e","s","s">>

\* None for an attribute psutil could not read.
NoneStr == "<None>"

\* round(n / d, 1)-style rounding of the quotient n / d (d > 0) to the
\* nearest integer, ties to even as Python's round(); \div rounds down, so
\* a negative n is rounded the same way.
RoundDiv(n, d) ==
  LET q == n \div d
      r == n % d
  IN IF 2 * r < d THEN q
     ELSE IF 2 * r > d THEN q + 1
     ELSE IF q % 2 = 0 THEN q ELSE q + 1

\* round(x, 1) of a value x given in tenths.
Round1(tenths) == RoundDiv(tenths, 1)

BytesPerMB == 1048576

\* is_system_process: process_name.lower() in SYSTEM_PROCESSES.  Only called
\* on a str; on None the call raises AttributeError (see FetchItem).
is_system_process(process_name) == Lower(process_name) \in SYSTEM_PROCESSES

\* One element of the enumeration: the attributes read for a process (None
\* where unreadable), or the psutil error its read raises.
\*   cpu_raw in tenths of a percent (negative: proc.cpu_percent() raises, which
\*   the bare `except` turns into 0.0), memory_percent in hundredths, rss in
\*   bytes (0: memory_info is None).
Raw(pid, name, username, cpu_raw, memory_percent, rss, status, err) ==
  [pid |-> pid, name |-> name, username |-> username, cpu_raw |-> cpu_raw,
   memory_percent |-> memory_percent, rss |-> rss, status |-> status, err |-> err]

MB(n) == n * BytesPerMB

RawItems ==
  { Raw(0,   N_SystemIdle,  "NT AUTHORITY\\SYSTEM", 0, 0, 8192, "running", "none"),
    Raw(101, N_chrome_exe,  "alice", 100, 125, MB(100), "running", "none"),
    Raw(102, N_chrome_exe,  "alice", 50, 62, MB(50), "stopped", "none"),
    Raw(103, N_notepad_exe, "alice", 20, 25, MB(20), "running", "none"),
    Raw(104, N_svchost_exe, "SYSTEM", 25, 10, MB(8), "sleeping", "none"),
    Raw(105, NoneName,      NoneStr, 0, 0, 0, NoneStr, "none"),
    Raw(106, N_myapp_exe,   "alice", 10, 5, MB(1), "running", "NoSuchProcess"),
    Raw(107, N_explorer_exe, "alice", 15, 35, MB(30), "running", "none"),
    Raw(108, N_myapp_exe,   NoneStr, -1, 5, MB(1), "sleeping", "none"),
    Raw(109, N_chrome_exe,  "alice", 950, 300, MB(150), "running", "none"),
    Raw(110, N_notepad_exe, "alice", 10, 5, MB(1), "running", "AccessDenied"),
    Raw(111, N_myapp_exe,   "alice", 0, 0, 0, "zombie", "ZombieProcess") }

\* Longest enumeration of the model.
MaxEnum == 3

RECURSIVE SeqsUpTo(_, _)
SeqsUpTo(S, n) ==
  IF n = 0 THEN {<<>>}
  ELSE LET shorter == SeqsUpTo(S, n - 1) IN
       shorter \cup { Append(e, x) : e \in { t \in shorter : Len(t) = n - 1 }, x \in S }

\* psutil.process_iter yields each pid of the process table once.
Enumerations ==
  { e \in SeqsUpTo(RawItems, MaxEnum) :
      \A i, j \in 1..Len(e) : i # j => e[i].pid # e[j].pid }

CpuCounts == {1, 2}

\* The body of the per-process try of fetch_processes: "skip" for `continue`,
\* "abort" for an exception that only the outer `except Exception` catches
\* (it ends the pass), else the record appended.
FetchItem_errorAborts(item, num_cpus) ==
  IF item.err \in {"NoSuchProcess", "AccessDenied", "ZombieProcess"}
  THEN [kind |-> "abort"]
  ELSE IF item.pid = 0
  THEN [kind |-> "skip"]
  ELSE IF item.name = NoneName
  THEN [kind |-> "abort"]
  ELSE [kind |-> "record",
        rec |-> [pid |-> item.pid,
                 name |-> item.name,
                 username |-> IF item.username = NoneStr THEN "N/A" ELSE item.username,
                 cpu_percent |-> IF item.cpu_raw >= 0 /\ num_cpus > 0
                                 THEN RoundDiv(item.cpu_raw, num_cpus) ELSE 0,
                 memory_percent |-> RoundDiv(item.memory_percent, 10),
                 memory_mb |-> IF item.rss # 0 THEN RoundDiv(item.rss * 10, BytesPerMB) ELSE 0,
                 status |-> IF item.status = NoneStr THEN "unknown" ELSE item.status,
                 num_threads |-> 0,
                 create_time |-> 0,
                 exe |-> "",
                 is_protected |-> is_system_process(item.name)]]

FetchItem(item, num_cpus) ==
  IF item.err \in {"NoSuchProcess", "AccessDenied", "ZombieProcess"}
  THEN [kind |-> "skip"]
  ELSE IF item.pid = 0
  THEN [kind |-> "skip"]
  ELSE IF item.name = NoneName
  THEN [kind |-> "abort"]      \* is_system_process(None): AttributeError
  ELSE [kind |-> "record",
        rec |-> [pid |-> item.pid,
                 name |-> item.name,
                 username |-> IF item.username = NoneStr THEN "N/A" ELSE item.username,
                 cpu_percent |-> IF item.cpu_raw >= 0 /\ num_cpus > 0
                                 THEN RoundDiv(item.cpu_raw, num_cpus) ELSE 0,
                 memory_percent |-> RoundDiv(item.memory_percent, 10),
                 memory_mb |-> IF item.rss # 0 THEN RoundDiv(item.rss * 10, BytesPerMB) ELSE 0,
                 status |-> IF item.status = NoneStr THEN "unknown" ELSE item.status,
                 num_threads |-> 0,
                 create_time |-> 0,
                 exe |-> "",
                 is_protected |-> is_system_process(item.name)]]

\* fetch_processes: the loop over the enumeration inside `try`, the list
\* built so far returned when the loop ends or is aborted.
RECURSIVE FetchFrom(_, _, _, _)
FetchFrom(e, i, num_cpus, processes) ==
  IF i > Len(e) THEN processes
  ELSE LET r == FetchItem(e[i], num_cpus) IN
       IF r.kind = "abort" THEN processes
       ELSE IF r.kind = "skip" THEN FetchFrom(e, i + 1, num_cpus, processes)
       ELSE FetchFrom(e, i + 1, num_cpus, Append(processes, r.rec))

fetch_processes(e, num_cpus) == FetchFrom(e, 1, num_cpus, <<>>)


\* str.replace(old, ""): every non-overlapping occurrence of old, found
\* left to right, is removed.
RECURSIVE RemoveAll(_, _)
RemoveAll(s, old) ==
  IF Len(s) < Len(old) THEN s
  ELSE IF MatchAt(s, old, 1)
  THEN RemoveAll(SubSeq(s, Len(old) + 1, Len(s)), old)
  ELSE <<s[1]>> \o RemoveAll(Tail(s), old)

\* base_name = proc['name'].replace('.exe', '').replace('.com', '')
BaseName_noStrip(name) == name

BaseName(name) == RemoveAll(RemoveAll(name, DOT_EXE), DOT_COM)

SYSTEM_ACCOUNTS == {"SYSTEM", "N/A", "NT AUTHORITY\\SYSTEM"}

\* The filter at the head of the grouping loop.
Excluded_protectedOnly(proc) == is_system_process(proc.name)

Excluded(proc) == is_system_process(proc.name) /\ proc.username \in SYSTEM_ACCOUNTS

\* The defaultdict's factory.
NewApp ==
  [name |-> <<>>, pids |-> <<>>, cpu_percent |-> 0, memory_mb |-> 0,
   memory_percent |-> 0, status |-> "running", process_count |-> 0,
   exe |-> "", is_closeable |-> TRUE]

\* The body of the grouping loop applied to one record: app is
\* apps_dict[base_name] before, the result is apps_dict[base_name] after.
FoldInto_lastStatusWins(app, base_name, proc) ==
  [app EXCEPT !.name = base_name,
              !.pids = Append(@, proc.pid),
              !.cpu_percent = @ + proc.cpu_percent,
              !.memory_mb = @ + proc.memory_mb,
              !.memory_percent = @ + proc.memory_percent,
              !.process_count = @ + 1,
              !.status = proc.status]

FoldInto_prepend(app, base_name, proc) ==
  [app EXCEPT !.name = base_name,
              !.pids = <<proc.pid>> \o @,
              !.cpu_percent = @ + proc.cpu_percent,
              !.memory_mb = @ + proc.memory_mb,
              !.memory_percent = @ + proc.memory_percent,
              !.process_count = @ + 1,
              !.status = IF proc.status # "running" THEN proc.status ELSE @]

FoldInto(app, base_name, proc) ==
  [app EXCEPT !.name = base_name,
              !.pids = Append(@, proc.pid),
              !.cpu_percent = @ + proc.cpu_percent,
              !.memory_mb = @ + proc.memory_mb,
              !.memory_percent = @ + proc.memory_percent,
              !.process_count = @ + 1,
              !.status = IF proc.status # "running" THEN proc.status ELSE @]

\* apps_dict is a dict (insertion-ordered): a sequence of <<key, app>>.
KeyIndex(apps_dict, key) ==
  IF \E i \in 1..Len(apps_dict) : apps_dict[i][1] = key
  THEN CHOOSE i \in 1..Len(apps_dict) : apps_dict[i][1] = key
  ELSE 0

RECURSIVE GroupFrom(_, _, _)
GroupFrom(processes, i, apps_dict) ==
  IF i > Len(processes) THEN apps_dict
  ELSE LET proc == processes[i] IN
       IF Excluded(proc) THEN GroupFrom(processes, i + 1, apps_dict)
       ELSE LET base_name == BaseName(proc.name)
                k == KeyIndex(apps_dict, base_name)
            IN IF k = 0
               THEN GroupFrom(processes, i + 1,
                              Append(apps_dict, <<base_name, FoldInto(NewApp, base_name, proc)>>))
               ELSE GroupFrom(processes, i + 1,
                              [apps_dict EXCEPT ![k] = <<base_name, FoldInto(@[2], base_name, proc)>>])

\* The conversion of apps_dict to the list returned.
AppsList_cpuAveraged(apps_dict) ==
  LET kept == SelectSeq(apps_dict, LAMBDA kv : kv[2].process_count > 0) IN
  [i \in 1..Len(kept) |->
     [name |-> kept[i][2].name,
      pids |-> kept[i][2].pids,
      cpu_percent |-> RoundDiv(kept[i][2].cpu_percent, kept[i][2].process_count),
      memory_mb |-> Round1(kept[i][2].memory_mb),
      memory_percent |-> Round1(kept[i][2].memory_percent),
      status |-> kept[i][2].status,
      process_count |-> kept[i][2].process_count,
      exe |-> kept[i][2].exe,
      is_closeable |-> TRUE]]

AppsList(apps_dict) ==
  LET kept == SelectSeq(apps_dict, LAMBDA kv : kv[2].process_count > 0) IN
  [i \in 1..Len(kept) |->
     [name |-> kept[i][2].name,
      pids |-> kept[i][2].pids,
      cpu_percent |-> Round1(kept[i][2].cpu_percent),
      memory_mb |-> Round1(kept[i][2].memory_mb),
      memory_percent |-> Round1(kept[i][2].memory_percent),
      status |-> kept[i][2].status,
      process_count |-> kept[i][2].process_count,
      exe |-> kept[i][2].exe,
      is_closeable |-> TRUE]]

\* get_apps_grouped, on the processes get_processes_fast returned.
get_apps_grouped(processes) ==
  IF processes = <<>> THEN <<>>
  ELSE AppsList(GroupFrom(processes, 1, <<>>))


\* get_processes of src/backend/main.py: the per-process try inside the
\* loop, and the outer try whose `except Exception` answers 500.
ListItem(item, num_cpus) ==
  IF item.err \in {"NoSuchProcess", "AccessDenied", "ZombieProcess"}
  THEN [kind |-> "skip"]
  ELSE IF item.name = NoneName
  THEN [kind |-> "abort"]      \* is_protected_process(None, pid): AttributeError
  ELSE [kind |-> "record",
        rec |-> [pid |-> item.pid,
                 name |-> item.name,
                 username |-> IF item.username = NoneStr THEN "N/A" ELSE item.username,
                 cpu_percent |-> RoundDiv(IF item.cpu_raw >= 0 THEN item.cpu_raw ELSE 0, num_cpus),
                 memory_percent |-> RoundDiv(item.memory_percent, 10),
                 memory_mb |-> IF item.rss # 0 THEN RoundDiv(item.rss * 10, BytesPerMB) ELSE 0,
                 status |-> item.status,
                 threads |-> 0,
                 create_time |-> NoneStr,
                 protected |-> is_protected_process(item.name, item.pid)]]

RECURSIVE ListFrom(_, _, _, _)
ListFrom(e, i, num_cpus, processes) ==
  IF i > Len(e) THEN [status |-> 200, count |-> Len(processes), processes |-> processes]
  ELSE LET r == ListItem(e[i], num_cpus) IN
       IF r.kind = "abort" THEN [status |-> 500, count |-> 0, processes |-> <<>>]
       ELSE IF r.kind = "skip" THEN ListFrom(e, i + 1, num_cpus, processes)
       ELSE ListFrom(e, i + 1, num_cpus, Append(processes, r.rec))

get_processes(e, num_cpus) == ListFrom(e, 1, num_cpus, <<>>)

----------------------------------------------------------------------------
(* One sampling pass and its aggregation, from an enumeration (SpecPure) *)

NotRun == [done |-> FALSE, processes |-> <<>>]

NoApps == [done |-> FALSE, apps |-> <<>>]

NoListing == [done |-> FALSE, status |-> 0, count |-> 0, processes |-> <<>>]

PureIdle ==
  /\ penum = <<>> /\ ncpu = 1
  /\ fast = NotRun /\ apps = NoApps /\ listing = NoListing

PureInit ==
  /\ penum \in Enumerations
  /\ ncpu \in CpuCounts
  /\ fast = NotRun /\ apps = NoApps /\ listing = NoListing

\* The worker of get_processes_fast runs fetch_processes to its end.
RunFetch ==
  /\ ~fast.done
  /\ fast' = [done |-> TRUE, processes |-> fetch_processes(penum, ncpu)]
  /\ UNCHANGED <<penum, ncpu, apps, listing, lifeVars, samplerVars, guardVars, trackVars>>

\* get_apps_grouped folds the processes of the pass.
RunApps ==
  /\ fast.done /\ ~apps.done
  /\ apps' = [done |-> TRUE, apps |-> get_apps_grouped(fast.processes)]
  /\ UNCHANGED <<penum, ncpu, fast, listing, lifeVars, samplerVars, guardVars, trackVars>>

\* GET /api/processes of src/backend/main.py over the same enumeration.
RunListing ==
  /\ ~listing.done
  /\ listing' = [done |-> TRUE] @@ get_processes(penum, ncpu)
  /\ UNCHANGED <<penum, ncpu, fast, apps, lifeVars, samplerVars, guardVars, trackVars>>

PureNext == RunFetch \/ RunApps \/ RunListing

\* The processes of the aggregation model (SpecApps): names that differ in
\* case and in suffix, members that are not running, a protected process
\* of a user account.
AppItems ==
  { Raw(201, N_Chrome_exe,   "alice", 100, 125, MB(100), "running", "none"),
    Raw(202, N_chrome_EXE,   "alice", 50, 62, MB(50), "running", "none"),
    Raw(203, N_chrome_exe,   "alice", 20, 25, MB(20), "stopped", "none"),
    Raw(204, N_chrome_exe,   "alice", 0, 25, MB(20), "sleeping", "none"),
    Raw(205, N_chrome_exe,   "alice", 30, 25, MB(20), "running", "none"),
    Raw(206, N_explorer_exe, "alice", 15, 35, MB(30), "running", "none"),
    Raw(207, N_notepad_exe,  "alice", 20, 25, MB(20), "running", "none"),
    Raw(208, N_notepad_com,  "alice", 0, 5, MB(1), "sleeping", "none") }

\* Longest batch of the aggregation model.
MaxBatch == 3

AppEnumerations ==
  { e \in SeqsUpTo(AppItems, MaxBatch) :
      \A i, j \in 1..Len(e) : i # j => e[i].pid # e[j].pid }

AppsInit ==
  /\ penum \in AppEnumerations
  /\ ncpu = 1
  /\ fast = NotRun /\ apps = NoApps /\ listing = NoListing

AppsNext == RunFetch \/ RunApps

----------------------------------------------------------------------------
(* BoundedSampler: get_processes_fast and GET /api/processes of             *)
(* src/backend-v1-fastapi/main.py on the shared executor (SpecSampler).     *)
(* Time is abstract: the 8.0 s of wait_for is the action TimeoutFires,      *)
(* which may happen at any moment of an awaiting call; a worker that never  *)
(* ends is a worker whose Complete never happens.                           *)

\* executor = ThreadPoolExecutor(max_workers=4)
max_workers == 4

\* Requests that can be in flight together.
NumCalls == 5

CallIds == 1..NumCalls

\* What a worker may enumerate in the sampler model: nothing, only the
\* idle process (pid 0), or one ordinary process.
SamplerEnums ==
  {<<>>} \cup { <<x>> : x \in { r \in RawItems : r.pid \in {0, 101} } }

NoResp == [status |-> 0, outcome |-> "none", from |-> "none", body |-> [total_count |-> 0]]

Running == { c \in CallIds : call[c] = "running" }

Busy == Cardinality(Running) + orphans

\* What get_processes_fast returns for each way its await ends: the
\* worker's list, asyncio.TimeoutError, or an exception of the worker.
get_processes_fast_timeoutPropagates(outcome) ==
  IF outcome.kind = "result"
  THEN [raised |-> FALSE,
        value |-> [processes |-> outcome.processes, total_count |-> Len(outcome.processes)]]
  ELSE IF outcome.kind = "TimeoutError"
  THEN [raised |-> TRUE, value |-> [total_count |-> 0]]
  ELSE [raised |-> FALSE, value |-> [processes |-> <<>>, total_count |-> 0]]

get_processes_fast(outcome) ==
  IF outcome.kind = "result"
  THEN [raised |-> FALSE,
        value |-> [processes |-> outcome.processes, total_count |-> Len(outcome.processes)]]
  ELSE IF outcome.kind = "TimeoutError"
  THEN [raised |-> FALSE, value |-> [processes |-> <<>>, total_count |-> 0]]
  ELSE [raised |-> FALSE, value |-> [processes |-> <<>>, total_count |-> 0]]

\* GET /api/processes: `return await get_processes_fast()` inside a try
\* whose `except Exception` answers 500.
Respond(outcome, from) ==
  LET r == get_processes_fast(outcome) IN
  [status |-> IF r.raised THEN 500 ELSE 200,
   outcome |-> outcome.kind, from |-> from, body |-> r.value]

SamplerIdle ==
  /\ call = [c \in CallIds |-> "idle"]
  /\ queue = <<>> /\ orphans = 0 /\ resp = NoResp

\* A request arrives; loop.run_in_executor puts fetch_processes on the
\* executor's queue and the handler awaits it under wait_for.
Request(c) ==
  /\ call[c] = "idle"
  /\ call' = [call EXCEPT ![c] = "queued"]
  /\ queue' = Append(queue, c)
  /\ UNCHANGED <<orphans, resp, lifeVars, pureVars, guardVars, trackVars>>

\* A free pool worker takes the oldest work item.
StartWorker_noPoolLimit ==
  /\ queue # <<>>
  /\ call' = [call EXCEPT ![Head(queue)] = "running"]
  /\ queue' = Tail(queue)
  /\ UNCHANGED <<orphans, resp, lifeVars, pureVars, guardVars, trackVars>>

StartWorker ==
  /\ queue # <<>>
  /\ Busy < max_workers
  /\ call' = [call EXCEPT ![Head(queue)] = "running"]
  /\ queue' = Tail(queue)
  /\ UNCHANGED <<orphans, resp, lifeVars, pureVars, guardVars, trackVars>>

\* The worker returns its list before the timeout.
Complete(c, e) ==
  /\ call[c] = "running"
  /\ call' = [call EXCEPT ![c] = "idle"]
  /\ resp' = Respond([kind |-> "result", processes |-> fetch_processes(e, ncpu)], "running")
  /\ UNCHANGED <<queue, orphans, lifeVars, pureVars, guardVars, trackVars>>

\* fetch_processes raises outside its own try (psutil.cpu_count()).
WorkerRaises(c) ==
  /\ call[c] = "running"
  /\ call' = [call EXCEPT ![c] = "idle"]
  /\ resp' = Respond([kind |-> "Exception"], "running")
  /\ UNCHANGED <<queue, orphans, lifeVars, pureVars, guardVars, trackVars>>

RemoveFrom(q, c) == SelectSeq(q, LAMBDA x : x # c)

\* wait_for's timeout (8.0) expires first: the future is cancelled, which
\* drops a work item still queued and leaves a running worker running.
TimeoutFires_joinsWorker(c) ==
  /\ call[c] = "queued"
  /\ call' = [call EXCEPT ![c] = "idle"]
  /\ queue' = RemoveFrom(queue, c)
  /\ orphans' = orphans
  /\ resp' = Respond([kind |-> "TimeoutError"], call[c])
  /\ UNCHANGED <<lifeVars, pureVars, guardVars, trackVars>>

TimeoutFires(c) ==
  /\ call[c] \in {"queued", "running"}
  /\ call' = [call EXCEPT ![c] = "idle"]
  /\ queue' = RemoveFrom(queue, c)
  /\ orphans' = IF call[c] = "running" THEN orphans + 1 ELSE orphans
  /\ resp' = Respond([kind |-> "TimeoutError"], call[c])
  /\ UNCHANGED <<lifeVars, pureVars, guardVars, trackVars>>

\* An abandoned worker ends; its result is discarded.
OrphanEnds ==
  /\ orphans > 0
  /\ orphans' = orphans - 1
  /\ UNCHANGED <<call, queue, resp, lifeVars, pureVars, guardVars, trackVars>>

SamplerNext ==
  \/ \E c \in CallIds : Request(c)
  \/ StartWorker
  \/ \E c \in CallIds, e \in SamplerEnums : Complete(c, e)
  \/ \E c \in CallIds : WorkerRaises(c)
  \/ \E c \in CallIds : TimeoutFires(c)
  \/ OrphanEnds

----------------------------------------------------------------------------
(* ProcessGuard: is_protected_process of src/backend/main.py applied to one *)
(* name and pid, as get_processes and kill_process call it (SpecGuard).     *)

\* Largest of the consecutive pids the policy is applied to.
GuardPidMax == 12

\* The pids: the low pids around the `pid <= 10` rule, and an ordinary one.
GuardPids == (0 .. GuardPidMax) \cup {4000}

GuardNames ==
  { N_explorer_exe, N_Explorer_EXE, N_myapp_exe, N_mysystem_exe,
    N_svchost_exe, N_chrome_exe, N_notepad_exe, N_SystemIdle }

GuardIdle == guard = [name |-> <<>>, pid |-> 0, done |-> FALSE, result |-> FALSE]

GuardInit ==
  guard \in [name : GuardNames, pid : GuardPids, done : {FALSE}, result : {FALSE}]

\* is_protected_process(process_name, pid) is called and returns.
CheckProtection ==
  /\ ~guard.done
  /\ guard' = [guard EXCEPT !.done = TRUE,
                            !.result = is_protected_process(guard.name, guard.pid)]
  /\ UNCHANGED <<lifeVars, samplerVars, pureVars, trackVars>>

GuardNext == CheckProtection

----------------------------------------------------------------------------
(* CpuLoadTracker: proc.cpu_percent(interval=0) as fetch_processes calls it *)
(* on the Process object psutil.process_iter keeps for a process, from the  *)
(* sampling passes that run in the pool at the same time (SpecTracker).     *)
(* Times are integers: the wall clock and the cumulative CPU time of the    *)
(* process in one unit; percentages count tenths.                           *)

\* Last reading of the wall clock.
MaxClock == 2

\* Largest cumulative CPU time of the process.
MaxCpuTime == 2

\* Sampling passes that can be in the pool together.
PassIds == {1, 2}

NoBase == [set |-> FALSE, st |-> 0, pt |-> 0]

Reading(st, pt) == [set |-> TRUE, st |-> st, pt |-> pt]

IdlePass == [pc |-> "idle", base |-> NoBase, now |-> NoBase, out |-> 0]

\* What psutil computes from the baseline it read and the times it
\* measured: 0.0 without a baseline or when no time has passed, else
\* round(100 * delta_proc / delta_time, 1); nothing clamps the value.
psutil_cpu_percent(base, now) ==
  IF ~base.set THEN 0
  ELSE IF now.st - base.st = 0 THEN 0
  ELSE RoundDiv(1000 * (now.pt - base.pt), now.st - base.st)

\* cpu_val = cpu_raw / num_cpus if num_cpus > 0 else 0.0, and the
\* round(cpu_val, 1) of the record.
CpuVal(cpu_raw, num_cpus) ==
  IF num_cpus > 0 THEN RoundDiv(cpu_raw, num_cpus) ELSE 0

TrackIdle ==
  /\ tracker = [clock |-> 0, cputime |-> 0, num_cpus |-> 1, base |-> NoBase]
  /\ passes = [p \in PassIds |-> IdlePass]

TrackInit ==
  /\ tracker \in [clock : {0}, cputime : {0}, num_cpus : CpuCounts, base : {NoBase}]
  /\ passes = [p \in PassIds |-> IdlePass]

\* A pass reaches the process and calls proc.cpu_percent(interval=0),
\* which reads the baseline of the Process object ...
ReadBaseline(p) ==
  /\ passes[p].pc \in {"idle", "done"}
  /\ passes' = [passes EXCEPT ![p] = [IdlePass EXCEPT !.pc = "measure", !.base = tracker.base]]
  /\ UNCHANGED <<tracker, lifeVars, samplerVars, pureVars, guardVars>>

\* ... measures the wall clock and the CPU time of the process ...
Measure(p) ==
  /\ passes[p].pc = "measure"
  /\ passes' = [passes EXCEPT ![p].pc = "update",
                              ![p].now = Reading(tracker.clock, tracker.cputime)]
  /\ UNCHANGED <<tracker, lifeVars, samplerVars, pureVars, guardVars>>

\* ... stores them as the new baseline and returns; fetch_processes
\* divides by the cpu count and rounds.
UpdateBaseline(p) ==
  /\ passes[p].pc = "update"
  /\ tracker' = [tracker EXCEPT !.base = passes[p].now]
  /\ passes' = [passes EXCEPT ![p].pc = "done",
                              ![p].out = CpuVal(psutil_cpu_percent(passes[p].base, passes[p].now),
                                                tracker.num_cpus)]
  /\ UNCHANGED <<lifeVars, samplerVars, pureVars, guardVars>>

\* The wall clock advances.
Tick ==
  /\ tracker.clock < MaxClock
  /\ tracker' = [tracker EXCEPT !.clock = @ + 1]
  /\ UNCHANGED <<passes, lifeVars, samplerVars, pureVars, guardVars>>

\* The process uses CPU time.
Burn ==
  /\ tracker.cputime < MaxCpuTime
  /\ tracker' = [tracker EXCEPT !.cputime = @ + 1]
  /\ UNCHANGED <<passes, lifeVars, samplerVars, pureVars, guardVars>>

\* The operating system reports a cumulative CPU time below the last one
\* (a counter reset).
CounterReset ==
  /\ tracker.cputime > 0
  /\ tracker' = [tracker EXCEPT !.cputime = 0]
  /\ UNCHANGED <<passes, lifeVars, samplerVars, pureVars, guardVars>>

TrackNext ==
  \/ \E p \in PassIds : ReadBaseline(p)
  \/ \E p \in PassIds : Measure(p)
  \/ \E p \in PassIds : UpdateBaseline(p)
  \/ Tick
  \/ Burn
  \/ CounterReset

----------------------------------------------------------------------------
(* Specifications *)

\* The lifecycle controller under process exit and pid reuse.
Init == LifeInit /\ SamplerIdle /\ PureIdle /\ GuardIdle /\ TrackIdle

Next == LifeNext

Spec == Init /\ [][Next]_vars

\* One sampling pass and its aggregation over every bounded enumeration.
LifeIdle == ptable = [p \in Pids |-> NoProc] /\ req = IdleReq

InitPure == LifeIdle /\ SamplerIdle /\ PureInit /\ GuardIdle /\ TrackIdle

SpecPure == InitPure /\ [][PureNext]_vars

\* The aggregation over batches of like-named processes.
InitApps == LifeIdle /\ SamplerIdle /\ AppsInit /\ GuardIdle /\ TrackIdle

SpecApps == InitApps /\ [][AppsNext]_vars

\* The CPU baseline of one process under overlapping sampling passes.
InitTracker == LifeIdle /\ SamplerIdle /\ PureIdle /\ GuardIdle /\ TrackInit

SpecTracker == InitTracker /\ [][TrackNext]_vars

\* Concurrent sampling requests on the executor.
SamplerInit == LifeIdle /\ SamplerIdle /\ PureIdle /\ GuardIdle /\ TrackIdle

SpecSampler == SamplerInit /\ [][SamplerNext]_vars

\* Request slots used when checking liveness.
LiveCalls == 3

LiveIds == 1..LiveCalls

LiveNext ==
  \/ \E c \in LiveIds : Request(c)
  \/ StartWorker
  \/ \E c \in LiveIds, e \in SamplerEnums : Complete(c, e)
  \/ \E c \in LiveIds : WorkerRaises(c)
  \/ \E c \in LiveIds : TimeoutFires(c)
  \/ OrphanEnds

\* The event loop's timer fires: the loop thread is never blocked, the
\* enumeration runs on the executor's threads.  Nothing makes a worker end.
LiveSampler ==
  SamplerInit /\ [][LiveNext]_vars /\ \A c \in LiveIds : WF_vars(TimeoutFires(c))

\* The protection policy applied to every bounded name and pid.
InitGuard == LifeIdle /\ SamplerIdle /\ PureIdle /\ GuardInit /\ TrackIdle

SpecGuard == InitGuard /\ [][GuardNext]_vars

----------------------------------------------------------------------------
(* Properties of the lifecycle controller (specification Spec) *)

KillResolved == req.op = "kill" /\ req.name # NoneName

\* C1: a kill_process call whose resolved process is protected
\* (is_protected_process(name, pid) holds of the name it read) never invokes
\* terminate() or kill(), for either value of force: the call delivers no
\* signal.
C1_ProtectedNeverSignalled ==
  (KillResolved /\ is_protected_process(req.name, req.pid)) => req.sent = <<>>

C1_Witness ==
  /\ KillResolved /\ req.pc = "done" /\ req.force
  /\ is_protected_process(req.name, req.pid)
  /\ req.sent = <<>>

\* C2: a kill_process call on a live, protected pid ends with the Forbidden
\* outcome (403, the policy veto) as the outcome the caller observes.
C2_ForbiddenObserved ==
  (req.op = "kill" /\ req.pc = "done" /\ req.vetoed)
     => req.result = Http(403, "Forbidden")

\* C3: suspend_process and resume_process never deliver suspend() or
\* resume() to a protected process.
C3_ControlsGuarded ==
  \A i \in DOMAIN req.sent :
     req.sent[i].kind \in {"suspend", "resume"}
        => ~is_protected_process(req.sent[i].name, req.sent[i].pid)

\* C8: a lifecycle call whose pid names no live process, or whose process
\* exits between resolution and the signal call, ends with NotFound (404)
\* and delivers no signal.
C8_GoneIsNotFound ==
  (req.pc = "done" /\ req.gone)
     => (req.result = Http(404, "NotFound") /\ req.sent = <<>>)

\* C9: once kill_process has delivered its signal, the call reports success:
\* plain success when the process is gone within the bounded wait, the soft
\* success when the wait times out; never an error.
C9_SignalledIsSuccess ==
  (req.op = "kill" /\ req.pc = "done" /\ req.sent # <<>>)
     => /\ req.result.status = 200
        /\ \/ req.waited = "exited" /\ req.result.kind = "Success"
           \/ req.waited = "timeout" /\ req.result.kind = "SoftSuccess"

C9_Witness ==
  /\ req.op = "kill" /\ req.pc = "done" /\ req.sent # <<>>
  /\ req.waited = "timeout" /\ req.result = Http(200, "SoftSuccess")
  /\ ~is_protected_process(req.sent[1].name, req.sent[1].pid)

\* C16: a resume_process call that directly follows a successful
\* resume_process call on the same pid, whose process was running (never
\* suspended), succeeds as well, finds the process running and leaves it
\* running, unless the process has exited meanwhile or the operating system
\* denies the call.
C16_ResumeTwice ==
  (/\ req.op = "resume" /\ req.pc = "done"
   /\ req.prev = req.pid
   /\ ~req.gone /\ req.result.kind # "AccessDenied")
     => /\ req.result = Http(200, "Success")
        /\ Len(req.sent) = 1
        /\ req.sent[1].before = "running"
        /\ req.sent[1].after = "running"

C16_Witness ==
  /\ req.op = "resume" /\ req.pc = "done"
  /\ req.prev = req.pid
  /\ req.result = Http(200, "Success")
  /\ req.sent # <<>>
  /\ ~is_protected_process(req.sent[1].name, req.pid)
  /\ req.sent[1].before = "running"
  /\ ptable[req.pid].alive /\ ptable[req.pid].status = "running"

\* C17: in every interleaving of kill_process with process exit and pid
\* reuse, a process that receives terminate() or kill() is one whose own
\* name, at the moment of the signal, does not make is_protected_process
\* true: a pid recycled to a protected process after the check is never
\* signalled.
C17_NoRecycledTarget ==
  \A i \in DOMAIN req.sent :
     req.sent[i].kind \in {"terminate", "kill"}
        => ~is_protected_process(req.sent[i].name, req.sent[i].pid)

\* The process passed the check, exited before the signal call, and its
\* pid is held by a protected process: nothing was signalled.
C17_Witness ==
  /\ KillResolved /\ req.pc = "done"
  /\ ~is_protected_process(req.name, req.pid)
  /\ req.gone /\ ~req.valid
  /\ ptable[req.pid].alive
  /\ is_protected_process(ptable[req.pid].name, req.pid)
  /\ req.sent = <<>>
  /\ req.result = Http(404, "NotFound")

\* C21 as stated: a kill_process call that passed resolution and the
\* protection check delivers exactly one signal to the process.
C21_ExactlyOneDelivered ==
  (KillResolved /\ ~req.vetoed /\ req.pc = "done") => Len(req.sent) = 1

\* C21: a kill_process call that passed resolution and the protection
\* check invokes its signal method exactly once, kill() when force is true
\* and terminate() when it is false, and so delivers at most one signal;
\* no lifecycle call invokes its signal method again after an error or a
\* wait timeout.
C21_OneSignal ==
  /\ req.calls <= 1
  /\ Len(req.sent) <= req.calls
  /\ (KillResolved /\ ~req.vetoed /\ req.pc \in {"wait", "done"})
       => /\ req.calls = 1
          /\ \A i \in DOMAIN req.sent :
                req.sent[i].kind = IF req.force THEN "kill" ELSE "terminate"
  /\ (req.op = "kill" /\ req.pc = "done" /\ req.result = Http(200, "Success"))
       => Len(req.sent) = 1

C21_Witness ==
  /\ KillResolved /\ ~req.vetoed /\ req.pc = "done"
  /\ req.force
  /\ req.waited = "timeout"
  /\ req.calls = 1
  /\ Len(req.sent) = 1 /\ req.sent[1].kind = "kill"

\* C20: every failure of kill_process, suspend_process and resume_process
\* is answered as exactly one of NotFound (404), AccessDenied (403, the
\* operating system) or Forbidden (403, the protection policy); no call
\* ends in a generic error.
C20_FailuresClassified ==
  (req.pc = "done" /\ req.result.status # 200)
     => \/ req.result = Http(404, "NotFound")
        \/ req.result = Http(403, "AccessDenied")
        \/ req.result = Http(403, "Forbidden")

----------------------------------------------------------------------------
(* Properties of the bounded sampler (SpecSampler, LiveSampler) *)

\* C4: when the enumeration does not complete before the timeout,
\* get_processes_fast returns an empty processes list together with a
\* degraded flag that is true, and does not raise.
C4_TimeoutIsDegraded ==
  resp.outcome = "TimeoutError"
     => /\ resp.status = 200
        /\ resp.body.processes = <<>>
        /\ "degraded" \in DOMAIN resp.body
        /\ resp.body.degraded = TRUE

\* C5: every get_processes_fast call eventually returns to its caller,
\* whatever its worker does: also when the worker never ends and when every
\* pool worker is held by an earlier, abandoned enumeration.
C5_EveryCallReturns ==
  \A c \in LiveIds : (call[c] # "idle") ~> (call[c] = "idle")

C5_Witness ==
  /\ resp.outcome = "TimeoutError" /\ resp.from = "queued"
  /\ orphans = max_workers

\* C7: every /api/processes request issued, however many are in flight
\* together, is answered 200: by its worker's list, after a timeout, or
\* after a failure of the enumeration.
C7_EveryRequestSucceeds ==
  resp.outcome # "none" => resp.status = 200

C7_Witness ==
  /\ resp.outcome = "TimeoutError" /\ resp.from = "queued" /\ resp.status = 200
  /\ Cardinality(Running) = max_workers
  /\ orphans = 0

\* C19: under any sequence of get_processes_fast calls, repeated timeouts
\* that abandon their workers included, the enumeration workers running at
\* the same time (those of awaiting callers and the abandoned ones) are
\* never more than the pool size, 4.
C19_WorkersBounded ==
  Cardinality(Running) + orphans <= 4

C19_Witness ==
  /\ Cardinality(Running) + orphans = 4
  /\ orphans >= 2
  /\ Cardinality(Running) >= 1
  /\ queue # <<>>
  /\ resp.outcome = "TimeoutError" /\ resp.from = "running"

\* C29: workers abandoned by earlier calls never make a later call time
\* out with an empty result: no call still waiting in the executor's queue
\* times out while every pool thread is held by an abandoned worker.
C29_OrphansNeverStarve ==
  [][\A c \in CallIds :
       ~(/\ call[c] = "queued"
         /\ orphans = max_workers
         /\ call'[c] = "idle"
         /\ resp'.outcome = "TimeoutError"
         /\ resp'.body.processes = <<>>)]_vars

----------------------------------------------------------------------------
(* Properties of one sampling pass and its aggregation (SpecPure) *)

NoZeroNoDuplicates(processes) ==
  /\ \A i \in 1..Len(processes) : processes[i].pid # 0
  /\ \A i, j \in 1..Len(processes) : i # j => processes[i].pid # processes[j].pid

\* C6: the result of every sampling pass (get_processes_fast, and
\* get_processes of src/backend/main.py) holds no record with pid 0 and no
\* two records with the same pid.
C6_NoPidZeroNoDuplicates ==
  /\ fast.done => NoZeroNoDuplicates(fast.processes)
  /\ listing.done => NoZeroNoDuplicates(listing.processes)

Shape(proc) == <<proc.name, proc.status, proc.cpu_percent, proc.memory_mb>>

\* chrome.exe (running, cpu 10, mem 100), chrome.exe (stopped, cpu 5, mem 50),
\* notepad.exe (running, cpu 2, mem 20), in tenths, in any order.
IsChromeNotepadBatch(processes) ==
  /\ Len(processes) = 3
  /\ { Shape(processes[i]) : i \in 1..3 } =
       { <<N_chrome_exe, "running", 100, 1000>>,
         <<N_chrome_exe, "stopped", 50, 500>>,
         <<N_notepad_exe, "running", 20, 200>> }
  /\ \A i \in 1..3 : ~Excluded(processes[i])

\* C10: aggregating those three records yields exactly two application
\* records: chrome (process_count 2, cpu 15, memory 150, status stopped) and
\* notepad (process_count 1, cpu 2, status running).
C10_ChromeNotepad ==
  (apps.done /\ IsChromeNotepadBatch(fast.processes))
     => /\ Len(apps.apps) = 2
        /\ \E i, j \in 1..2 :
              /\ i # j
              /\ apps.apps[i].name = N_chrome
              /\ apps.apps[i].process_count = 2
              /\ apps.apps[i].cpu_percent = 150
              /\ apps.apps[i].memory_mb = 1500
              /\ apps.apps[i].status = "stopped"
              /\ apps.apps[j].name = N_notepad
              /\ apps.apps[j].process_count = 1
              /\ apps.apps[j].cpu_percent = 20
              /\ apps.apps[j].status = "running"

C10_Witness ==
  /\ apps.done /\ IsChromeNotepadBatch(fast.processes)
  /\ Shape(fast.processes[1]) = <<N_chrome_exe, "running", 100, 1000>>
  /\ Shape(fast.processes[2]) = <<N_chrome_exe, "stopped", 50, 500>>
  /\ Len(apps.apps) = 2

Range(seq) == { seq[i] : i \in 1..Len(seq) }

\* The place of the record of a pid in a batch.
IndexOfPid(processes, pid) == CHOOSE k \in 1..Len(processes) : processes[k].pid = pid

\* C11: every application record get_apps_grouped returns has a non-empty
\* pids list of pids greater than 0, each the pid of a record of the batch,
\* in the order those records have in the batch, and its process_count is
\* the length of pids.
C11_PidsWellFormed ==
  apps.done =>
    \A n \in 1..Len(apps.apps) :
      LET app == apps.apps[n] IN
      /\ app.pids # <<>>
      /\ \A i \in 1..Len(app.pids) :
            /\ app.pids[i] > 0
            /\ \E k \in 1..Len(fast.processes) : fast.processes[k].pid = app.pids[i]
      /\ \A i, j \in 1..Len(app.pids) :
            i < j => IndexOfPid(fast.processes, app.pids[i])
                       < IndexOfPid(fast.processes, app.pids[j])
      /\ app.process_count = Len(app.pids)

\* Two members of one application with a record of another between them.
C11_Witness ==
  /\ apps.done
  /\ Len(fast.processes) = 3
  /\ Len(apps.apps) = 2
  /\ apps.apps[1].pids = <<fast.processes[1].pid, fast.processes[3].pid>>
  /\ apps.apps[1].process_count = 2
  /\ fast.processes[1].pid > fast.processes[3].pid

RECURSIVE SumOver(_, _, _)
SumOver(processes, pids, field) ==
  IF processes = <<>> THEN 0
  ELSE (IF Head(processes).pid \in pids THEN Head(processes)[field] ELSE 0)
         + SumOver(Tail(processes), pids, field)

Grouped(proc) == \E n \in 1..Len(apps.apps) : proc.pid \in Range(apps.apps[n].pids)

\* C13: a record of the batch is left out of every application record if
\* and only if it is flagged protected and its username is one of 'SYSTEM',
\* 'N/A', 'NT AUTHORITY\SYSTEM'; a protected record of another account
\* and an unprotected record of any account are grouped.
C13_ExcludedIffProtectedSystem ==
  apps.done =>
    \A k \in 1..Len(fast.processes) :
      LET proc == fast.processes[k] IN
      ~Grouped(proc) <=>
         (proc.is_protected /\ proc.username \in {"SYSTEM", "N/A", "NT AUTHORITY\\SYSTEM"})

C13_Witness ==
  /\ apps.done
  /\ \E k \in 1..Len(fast.processes) :
        LET proc == fast.processes[k] IN
        proc.is_protected /\ proc.username = "SYSTEM" /\ ~Grouped(proc)
  /\ \E k \in 1..Len(fast.processes) :
        LET proc == fast.processes[k] IN
        proc.is_protected /\ proc.username = "alice" /\ Grouped(proc)
  /\ \E k \in 1..Len(fast.processes) :
        LET proc == fast.processes[k] IN
        ~proc.is_protected /\ proc.username = "N/A" /\ Grouped(proc)

Members(app) ==
  SelectSeq(fast.processes, LAMBDA proc : proc.pid \in Range(app.pids))

\* C22: the status of every application record is 'running' if and only if
\* every member record has status 'running': a running member folded in
\* after a non-running one does not set the status back.
C22_RunningIffAllRunning ==
  apps.done =>
    \A n \in 1..Len(apps.apps) :
      LET app == apps.apps[n] IN
      app.status = "running"
        <=> \A i \in 1..Len(Members(app)) : Members(app)[i].status = "running"

C22_Witness ==
  /\ apps.done
  /\ Len(apps.apps) = 1
  /\ Len(Members(apps.apps[1])) = 2
  /\ Members(apps.apps[1])[1].status = "stopped"
  /\ Members(apps.apps[1])[2].status = "running"
  /\ apps.apps[1].status = "stopped"

NotRunning(members) == SelectSeq(members, LAMBDA proc : proc.status # "running")

\* C23: when an application has non-running members, its status is the
\* status of the first non-running member in input order; a later
\* non-running member does not overwrite it.
C23_FirstNonRunningWins ==
  apps.done =>
    \A n \in 1..Len(apps.apps) :
      LET stopped == NotRunning(Members(apps.apps[n])) IN
      stopped # <<>> => apps.apps[n].status = stopped[1].status

\* The grouping key the claim describes: the name compared without regard
\* to case, a trailing .exe or .com stripped.
StrippedKey(name) ==
  LET lower == Lower(name)
      n == Len(lower)
  IN IF n >= 4 /\ SubSeq(lower, n - 3, n) \in {DOT_EXE, DOT_COM}
     THEN SubSeq(lower, 1, n - 4) ELSE lower

AppOf(proc) == CHOOSE n \in 1..Len(apps.apps) : proc.pid \in Range(apps.apps[n].pids)

\* C24: two records are grouped into the same application if and only if
\* their names are equal after stripping the suffix .exe or .com and
\* comparing case-insensitively, and the application's name is the
\* stripped name of its first record ('Chrome.exe' then 'chrome.EXE': one
\* application 'Chrome').
C24_CaseInsensitiveKey ==
  apps.done =>
    /\ \A i, j \in 1..Len(fast.processes) :
         LET p == fast.processes[i]
             q == fast.processes[j]
         IN (Grouped(p) /\ Grouped(q))
              => (AppOf(p) = AppOf(q) <=> StrippedKey(p.name) = StrippedKey(q.name))
    /\ \A n \in 1..Len(apps.apps) :
         LET first == Members(apps.apps[n])[1].name IN
         Lower(apps.apps[n].name) = StrippedKey(first)

\* C25: is_closeable of every application record is true if and only if
\* none of its member records is protected.
C25_CloseableIffNoProtected ==
  apps.done =>
    \A n \in 1..Len(apps.apps) :
      apps.apps[n].is_closeable
        <=> \A i \in 1..Len(Members(apps.apps[n])) : ~Members(apps.apps[n])[i].is_protected

RemoveAt(e, k) == SubSeq(e, 1, k - 1) \o SubSeq(e, k + 1, Len(e))

IndexInEnum(e, pid) == CHOOSE k \in 1..Len(e) : e[k].pid = pid

InEnumOrder(processes, e) ==
  /\ \A i \in 1..Len(processes) : \E k \in 1..Len(e) : e[k].pid = processes[i].pid
  /\ \A i, j \in 1..Len(processes) :
        i < j => IndexInEnum(e, processes[i].pid) < IndexInEnum(e, processes[j].pid)

Readable(item) == item.err = "none" /\ item.pid # 0 /\ item.name # NoneName

\* C28: in fetch_processes a process whose name could not be read (None)
\* affects at most its own record: every readable process enumerated after
\* it has its record in the result of the pass.
C28_NoneNameSkipsOne ==
  fast.done =>
    \A k \in 1..Len(penum) :
      penum[k].name = NoneName =>
        \A j \in (k + 1)..Len(penum) :
          Readable(penum[j]) =>
            \E i \in 1..Len(fast.processes) : fast.processes[i].pid = penum[j].pid

----------------------------------------------------------------------------
(* Properties of the CPU baseline (SpecTracker) *)

\* C26: the cpu_percent reported for the first observation of a process is
\* exactly 0.0; for a later observation it is 100 * (CPU-time delta /
\* wall-clock delta) / cpu count (here to within one tenth, the rounding of
\* the record), and it is never negative: a CPU-time counter that went
\* backwards gives 0.
C26_CpuFormula ==
  \A p \in PassIds :
    passes[p].pc = "done" =>
      LET base == passes[p].base
          now  == passes[p].now
          out  == passes[p].out
          dw   == (now.st - base.st) * tracker.num_cpus
          dp   == now.pt - base.pt
      IN /\ out >= 0
         /\ ~base.set => out = 0
         /\ (base.set /\ dp < 0) => out = 0
         /\ (base.set /\ dp >= 0 /\ dw > 0)
              => /\ out * dw - 1000 * dp <= dw
                 /\ 1000 * dp - out * dw <= dw

\* The part of proc.cpu_percent() between reading the baseline and storing
\* the new one.
InUpdate(p) == passes[p].pc \in {"measure", "update"}

\* C27: the read-modify-write updates of the CPU baseline of a process by
\* two overlapping passes are mutually exclusive: at no time are two passes
\* inside the baseline update of the same process.
C27_BaselineMutex ==
  \A p, q \in PassIds : (p # q /\ InUpdate(p)) => ~InUpdate(q)

----------------------------------------------------------------------------
(* Properties of the protection policy (SpecGuard) *)

\* C14: is_protected_process('explorer.exe', pid) is true for every pid
\* (4000 among them); is_protected_process('myapp.exe', 5) is true, by the
\* low-pid rule; is_protected_process('myapp.exe', 4000) is false.
C14_ExplorerAndLowPid ==
  guard.done =>
    /\ guard.name = N_explorer_exe => guard.result = TRUE
    /\ (guard.name = N_myapp_exe /\ guard.pid = 5) => guard.result = TRUE
    /\ (guard.name = N_myapp_exe /\ guard.pid = 4000) => guard.result = FALSE

C14_Witness ==
  /\ guard.done
  /\ guard.name = N_explorer_exe /\ guard.pid = 4000
  /\ guard.result = TRUE

\* C15: for every name and pid, is_protected_process(name, pid) is true if
\* and only if the lowercased name is a member of PROTECTED_PROCESSES or
\* pid <= 10; a name not itself in the list with a pid above 10 gives false.
C15_MemberOrLowPid ==
  guard.done =>
    (guard.result <=>
       (Lower(guard.name) \in Range(PROTECTED_PROCESSES) \/ guard.pid <= 10))

====
